---- MODULE Spec2Model ----
(***************************************************************************)
(* Model of the daily-haiku backend (src/app/main.py).                     *)
(*                                                                         *)
(* The record store (Supabase) is modelled as two tables held as sets of   *)
(* rows: haikus (the poems) and daily_haikus (date -> haiku_id).  The      *)
(* keywords table only decorates a returned haiku and is left out.         *)
(* Each request to GET /daily_haiku is a process that advances one store   *)
(* call at a time, so that concurrent requests interleave at the           *)
(* granularity of their reads and of the upsert.  The reads of the store   *)
(* succeed; the upsert may raise, which the handler catches.               *)
(* Poem identifiers are positive integers (a serial key); dates are        *)
(* <<year, month, day>> and date strings are sequences of characters.      *)
(***************************************************************************)
EXTENDS Integers, Sequences, FiniteSets, TLC

(* ------------------------------ bounds --------------------------------- *)

\* poem identifiers range over 1..MaxPoemId
MaxPoemId == 2

\* number of midnights the clock may pass
MaxTicks == 2

\* the request handlers: two requests may be in progress at once, which is
\* the race the allocator is exposed to
Procs == {1, 2}
PoemIds == 1..MaxPoemId

(* ------------------------------ calendar ------------------------------- *)

IsLeap(y) == (y % 4 = 0 /\ y % 100 # 0) \/ y % 400 = 0

DaysInMonth(y, m) ==
  IF m = 2 THEN (IF IsLeap(y) THEN 29 ELSE 28)
  ELSE IF m \in {4, 6, 9, 11} THEN 30 ELSE 31

\* the dates of the years the model draws from: a common year, a leap year
\* and the day range the clock of the allocator runs through
Years == {2023, 2024, 2025}

AllDates ==
  {<<y, m, d>> : y \in Years, m \in 1..12, d \in 1..31} \cap
  {dt \in (Years \X (1..12) \X (1..31)) : dt[3] <= DaysInMonth(dt[1], dt[2])}

NextDay(dt) ==
  IF dt[3] < DaysInMonth(dt[1], dt[2]) THEN <<dt[1], dt[2], dt[3] + 1>>
  ELSE IF dt[2] < 12 THEN <<dt[1], dt[2] + 1, 1>>
  ELSE <<dt[1] + 1, 1, 1>>

\* date comparison (datetime.date orders by year, month, day)
DateLE(a, b) ==
  \/ a[1] < b[1]
  \/ a[1] = b[1] /\ a[2] < b[2]
  \/ a[1] = b[1] /\ a[2] = b[2] /\ a[3] <= b[3]

\* the first day the clock shows
StartDate == <<2025, 3, 19>>

(* ------------------------------ seasons -------------------------------- *)

Y == 2000

\* a season table with a hole between winter and spring (Mar 21 missing)
seasonsGap ==
  << [season |-> "winter", start |-> <<Y, 1, 1>>,   end |-> <<Y, 3, 20>>],
     [season |-> "spring", start |-> <<Y, 3, 22>>,  end |-> <<Y, 6, 20>>],
     [season |-> "summer", start |-> <<Y, 6, 21>>,  end |-> <<Y, 9, 22>>],
     [season |-> "autumn", start |-> <<Y, 9, 23>>,  end |-> <<Y, 12, 20>>],
     [season |-> "winter", start |-> <<Y, 12, 21>>, end |-> <<Y, 12, 31>>] >>

seasons ==
  << [season |-> "winter", start |-> <<Y, 1, 1>>,   end |-> <<Y, 3, 20>>],
     [season |-> "spring", start |-> <<Y, 3, 21>>,  end |-> <<Y, 6, 20>>],
     [season |-> "summer", start |-> <<Y, 6, 21>>,  end |-> <<Y, 9, 22>>],
     [season |-> "autumn", start |-> <<Y, 9, 23>>,  end |-> <<Y, 12, 20>>],
     [season |-> "winter", start |-> <<Y, 12, 21>>, end |-> <<Y, 12, 31>>] >>

SeasonLabels == {"winter", "spring", "summer", "autumn"}

\* now.replace(year=Y)
ReplaceYear(now) == <<Y, now[2], now[3]>>

\* the ranges of the season table that contain the normalized date
MatchingRanges(now) ==
  {i \in 1..Len(seasons) :
     /\ DateLE(seasons[i].start, ReplaceYear(now))
     /\ DateLE(ReplaceYear(now), seasons[i].end)}

\* next(season for ... if start <= now <= end): the first match, and
\* StopIteration when the generator is empty
get_season(now) ==
  IF MatchingRanges(now) = {} THEN "StopIteration"
  ELSE seasons[CHOOSE i \in MatchingRanges(now) :
                 \A j \in MatchingRanges(now) : i <= j].season

(* ---------------------------- date strings ----------------------------- *)

Digit == <<"0", "1", "2", "3", "4", "5", "6", "7", "8", "9">>

Pad2(n) == <<Digit[((n \div 10) % 10) + 1], Digit[(n % 10) + 1]>>

Pad4(n) ==
  <<Digit[((n \div 1000) % 10) + 1], Digit[((n \div 100) % 10) + 1]>> \o Pad2(n)

\* today.strftime("%Y-%m-%d")
strftime(dt) == Pad4(dt[1]) \o <<"-">> \o Pad2(dt[2]) \o <<"-">> \o Pad2(dt[3])

(* ------------------------------ the store ------------------------------ *)

\* Optional[dict] with no value
None == [id |-> 0, season |-> "None"]

\* supabase.table("haikus").select("*").eq("id", haiku_id).single(),
\* then `if not haiku: return None`
get_haiku_by_id(table, haiku_id) ==
  IF \E h \in table : h.id = haiku_id
  THEN CHOOSE h \in table : h.id = haiku_id
  ELSE None

\* a query whose date filter matches no row
SelectNothing(table, date_str) == {}

\* table("daily_haikus").select("*").eq("date", date_str)
SelectByDate(table, date_str) == {r \in table : r.date = date_str}

\* a season filter that lets every poem through
SelectAnySeason(table, season) == table

\* table("haikus").select("*").eq("season", season)
SelectBySeason(table, season) == {h \in table : h.season = season}

\* an insert that does not resolve the conflict on the date key
upsertAsInsert(table, row) == table \cup {row}

\* an upsert whose row is lost
upsertDropped(table, row) == table

\* an upsert that keeps the row already stored for the date
upsertKeepFirst(table, row) ==
  IF \E r \in table : r.date = row.date THEN table ELSE table \cup {row}

\* table("daily_haikus").upsert({date, haiku_id}): the row with the same
\* date key is replaced, otherwise the row is inserted
upsert(table, row) == {r \in table : r.date # row.date} \cup {row}

\* a list holding the values of column haiku_id, one entry per row
RECURSIVE ColumnList(_)
ColumnList(rows) ==
  IF rows = {} THEN <<>>
  ELSE LET r == CHOOSE x \in rows : TRUE
       IN <<r.haiku_id>> \o ColumnList(rows \ {r})

SeqRange(s) == {s[i] : i \in 1..Len(s)}

\* a filter that lets the used poems through
NotUsedIgnoring(pool, ids) == pool

\* [h for h in pool if h["id"] not in used_ids]
NotUsed(pool, ids) == {h \in pool : h.id \notin SeqRange(ids)}

(* --------------------------- responses --------------------------------- *)

NoResponse == [status |-> 0, kind |-> "none", id |-> 0, season |-> "", count |-> 0, detail |-> ""]

\* `return haiku`: the poem as JSON (null when the lookup gave None)
HaikuResponse(h) ==
  IF h = None
  THEN [status |-> 200, kind |-> "null", id |-> 0, season |-> "", count |-> 0, detail |-> ""]
  ELSE [status |-> 200, kind |-> "haiku", id |-> h.id, season |-> h.season,
        count |-> 0, detail |-> ""]

\* the closing view; notes: "DailyHaiku shared {total_days} unique poems"
FinalResponse(total_days) ==
  [status |-> 200, kind |-> "final", id |-> 0, season |-> "eternal",
   count |-> total_days, detail |-> ""]

\* raise HTTPException(status_code=500, detail=...)
HTTPException500(detail) ==
  [status |-> 500, kind |-> "error", id |-> 0, season |-> "", count |-> 0, detail |-> detail]

\* the X-Cron-Secret header of a request that carries none
NoHeader == [present |-> FALSE, value |-> ""]

\* no answer yet from a read endpoint or from the email endpoint
NoAnswer ==
  [op |-> "none", str |-> <<>>, page |-> 0, limit |-> 0, cred |-> NoHeader,
   api |-> 0, status |-> 0, body |-> "", id |-> 0, items |-> <<>>,
   nextPage |-> 0, reads |-> <<>>, posted |-> FALSE]

(* ------------------------------- state --------------------------------- *)

VARIABLES
  haikus,        \* table haikus: rows [id, season]
  daily_haikus,  \* table daily_haikus: rows [date, haiku_id]
  clock,         \* the current date at UTC+1
  ticks,         \* midnights passed
  pc,            \* per request: the line of get_daily_haiku it is at
  today,         \* per request: the date read at line 91
  season,        \* per request: the season computed at line 93
  existing,      \* per request: the rows read at line 98
  used_ids,      \* per request: the list read at lines 109-112
  chosen,        \* per request: the haiku picked at line 139
  seasonalFree,  \* history, kept until the request chooses: when it read
                 \*          used_ids (lines 109-112), a haiku of today's season
                 \*          was in no assignment
  result,        \* per request: the response sent
  quietCall,     \* history: no other writer since the request's call began
  seen,          \* history: daily_haikus when the call began (while quietCall)
  prev,          \* history: the poem the request's previous call returned, if
                 \*          that call was for the date of this one and no other
                 \*          writer has written since it began (0 otherwise)
  lastUpsert,    \* history: the request whose upsert ran last
  resp           \* the last answer of a read endpoint or of the email endpoint

vars == <<haikus, daily_haikus, clock, ticks, pc, today, season, existing, used_ids,
          chosen, seasonalFree, result, quietCall, seen, prev, lastUpsert, resp>>

store == <<haikus, daily_haikus>>
locals == <<today, season, existing, used_ids, chosen, seasonalFree>>
history == <<quietCall, seen, prev, lastUpsert>>

today_str(p) == strftime(today[p])

InFlight(p) == pc[p] \notin {"idle", "done"}

\* the poems the ingestion process may hold: poem 1 is a winter poem, poem 2
\* a winter or a spring poem, and the poems after them go round the seasons
SeasonCycle == <<"summer", "autumn", "winter", "spring">>

SeasonsOf(i) ==
  IF i = 1 THEN {"winter"}
  ELSE IF i = 2 THEN {"winter", "spring"}
  ELSE {SeasonCycle[((i - 3) % Len(SeasonCycle)) + 1]}

Poems == {h \in [id : PoemIds, season : SeasonLabels] : h.season \in SeasonsOf(h.id)}

\* every catalogue of poems, each identifier in at most one row
Catalogues == {c \in SUBSET Poems : \A a, b \in c : a.id = b.id => a = b}

\* the assignment table found at start: empty, or one row for the first day
\* (its poem may be missing from the catalogue)
InitialAssignments ==
  {{}} \cup {{[date |-> strftime(StartDate), haiku_id |-> i]} : i \in PoemIds}

\* no poem: the identifier of None
NoPrev == None.id

Init ==
  /\ haikus \in Catalogues
  /\ daily_haikus \in InitialAssignments
  /\ clock = StartDate
  /\ ticks = 0
  /\ pc = [p \in Procs |-> "idle"]
  /\ today = [p \in Procs |-> StartDate]
  /\ season = [p \in Procs |-> ""]
  /\ existing = [p \in Procs |-> {}]
  /\ used_ids = [p \in Procs |-> <<>>]
  /\ chosen = [p \in Procs |-> None]
  /\ seasonalFree = [p \in Procs |-> FALSE]
  /\ result = [p \in Procs |-> NoResponse]
  /\ quietCall = [p \in Procs |-> TRUE]
  /\ seen = [p \in Procs |-> {}]
  /\ prev = [p \in Procs |-> NoPrev]
  /\ lastUpsert = 0
  /\ resp = NoAnswer

\* a write to the store by request w (0: by the operator) disturbs the
\* others: their history of an undisturbed store is dropped
Disturb(w) ==
  /\ quietCall' = [r \in Procs |-> IF r = w THEN quietCall[r] ELSE FALSE]
  /\ seen' = [r \in Procs |-> IF r = w THEN seen[r] ELSE {}]
  /\ prev' = [r \in Procs |-> IF r = w THEN prev[r] ELSE NoPrev]

\* the request returns: its locals other than the response die
Finish(p, response) ==
  /\ pc' = [pc EXCEPT ![p] = "done"]
  /\ result' = [result EXCEPT ![p] = response]
  /\ existing' = [existing EXCEPT ![p] = {}]
  /\ used_ids' = [used_ids EXCEPT ![p] = <<>>]
  /\ seasonalFree' = [seasonalFree EXCEPT ![p] = FALSE]

(* ------------------------- GET /daily_haiku ---------------------------- *)

\* lines 90-99: read the date, classify the season, and make the first
\* query to the store: is there a row for today?
Begin(p) ==
  /\ pc[p] \in {"idle", "done"}
  /\ today' = [today EXCEPT ![p] = clock]
  /\ chosen' = [chosen EXCEPT ![p] = None]
  /\ season' = [season EXCEPT ![p] = get_season(clock)]
  /\ IF season'[p] = "StopIteration"
     THEN Finish(p, HTTPException500("StopIteration"))
     ELSE /\ existing' = [existing EXCEPT ![p] = SelectByDate(daily_haikus, strftime(clock))]
          /\ pc' = [pc EXCEPT ![p] = IF existing'[p] # {} THEN "L100" ELSE "L109"]
          /\ result' = [result EXCEPT ![p] = NoResponse]
          /\ seasonalFree' = [seasonalFree EXCEPT ![p] = FALSE]
          /\ UNCHANGED used_ids
  /\ quietCall' = [quietCall EXCEPT ![p] = TRUE]
  /\ seen' = [seen EXCEPT ![p] = daily_haikus]
  /\ prev' = [prev EXCEPT ![p] =
                IF /\ pc[p] = "done"
                   /\ quietCall[p]
                   /\ today[p] = clock
                   /\ result[p].kind = "haiku"
                THEN result[p].id
                ELSE NoPrev]
  /\ UNCHANGED <<store, clock, ticks, lastUpsert, resp>>

\* a handler that, on a row whose poem is missing, carries on to allocate
ResolveExistingReplace(p) ==
  /\ pc[p] = "L100"
  /\ \E row \in existing[p] :
       LET haiku == get_haiku_by_id(haikus, row.haiku_id)
       IN IF haiku # None
          THEN Finish(p, HaikuResponse(haiku))
          ELSE /\ pc' = [pc EXCEPT ![p] = "L109"]
               /\ UNCHANGED <<existing, used_ids, seasonalFree, result>>
  /\ UNCHANGED <<store, clock, ticks, today, season, chosen, history, resp>>

\* lines 100-106: resolve the haiku of the row found (data[0])
ResolveExisting(p) ==
  /\ pc[p] = "L100"
  /\ \E row \in existing[p] :
       LET haiku == get_haiku_by_id(haikus, row.haiku_id)
       IN IF haiku # None
          THEN Finish(p, HaikuResponse(haiku))
          ELSE Finish(p, HTTPException500("Haiku assigned but not found"))
  /\ UNCHANGED <<store, clock, ticks, today, season, chosen, history, resp>>

\* lines 109-112: the identifiers of every row of daily_haikus
ReadUsed(p) ==
  /\ pc[p] = "L109"
  /\ used_ids' = [used_ids EXCEPT ![p] = ColumnList(daily_haikus)]
  /\ seasonalFree' = [seasonalFree EXCEPT ![p] =
                        \E h \in haikus :
                          /\ h.season = season[p]
                          /\ \A r \in daily_haikus : r.haiku_id # h.id]
  /\ pc' = [pc EXCEPT ![p] = "L114"]
  /\ UNCHANGED <<store, clock, ticks, today, season, existing, chosen, result, history, resp>>

\* a choice whose integrity test is inverted
ChooseRejecting(p, remaining) ==
  \E c \in remaining :
    /\ Finish(p, HTTPException500("Selected haiku is invalid."))
    /\ UNCHANGED chosen

\* lines 139-143: random.choice(remaining), then the integrity test
Choose(p, remaining) ==
  \E c \in remaining :
    IF c = None \/ c.id = 0
    THEN /\ Finish(p, HTTPException500("Selected haiku is invalid."))
         /\ UNCHANGED chosen
    ELSE /\ chosen' = [chosen EXCEPT ![p] = c]
         /\ pc' = [pc EXCEPT ![p] = "L147"]
         /\ seasonalFree' = [seasonalFree EXCEPT ![p] = FALSE]
         /\ UNCHANGED <<existing, used_ids, result>>

\* lines 114-118: the unused haikus of the season; pick one if there is any
ReadSeasonal(p) ==
  /\ pc[p] = "L114"
  /\ LET seasonal == SelectBySeason(haikus, season[p])
         remaining == NotUsed(seasonal, used_ids[p])
     IN IF remaining = {}
        THEN /\ pc' = [pc EXCEPT ![p] = "L119"]
             /\ UNCHANGED <<existing, used_ids, chosen, seasonalFree, result>>
        ELSE Choose(p, remaining)
  /\ UNCHANGED <<store, clock, ticks, today, season, history, resp>>

\* a handler without the fallback: the closing view as soon as the season
\* has no unused haiku
ReadAllNoFallback(p) ==
  /\ pc[p] = "L119"
  /\ Finish(p, FinalResponse(Len(used_ids[p])))
  /\ UNCHANGED <<store, clock, ticks, today, season, chosen, history, resp>>

\* lines 119-136: fall back to every unused haiku; the closing view if none
ReadAll(p) ==
  /\ pc[p] = "L119"
  /\ LET remaining == NotUsed(haikus, used_ids[p])
     IN IF remaining = {}
        THEN /\ Finish(p, FinalResponse(Len(used_ids[p])))
             /\ UNCHANGED chosen
        ELSE Choose(p, remaining)
  /\ UNCHANGED <<store, clock, ticks, today, season, history, resp>>

\* lines 145-151: upsert the row (today, chosen)
Upsert(p) ==
  /\ pc[p] = "L147"
  /\ daily_haikus' = upsert(daily_haikus, [date |-> today_str(p), haiku_id |-> chosen[p].id])
  /\ pc' = [pc EXCEPT ![p] = "L158"]
  /\ lastUpsert' = p
  /\ Disturb(p)
  /\ UNCHANGED <<haikus, clock, ticks, locals, result, resp>>

\* an upsert that writes the row and then raises
UpsertFailAfterWrite(p) ==
  /\ pc[p] = "L147"
  /\ daily_haikus' = upsert(daily_haikus, [date |-> today_str(p), haiku_id |-> chosen[p].id])
  /\ Finish(p, HTTPException500("Failed to insert haiku"))
  /\ UNCHANGED <<haikus, clock, ticks, today, season, chosen, history, resp>>

\* lines 152-156: the upsert raised
UpsertFail(p) ==
  /\ pc[p] = "L147"
  /\ Finish(p, HTTPException500("Failed to insert haiku"))
  /\ UNCHANGED <<store, clock, ticks, today, season, chosen, history, resp>>

\* line 158: return the chosen haiku
Return(p) ==
  /\ pc[p] = "L158"
  /\ Finish(p, HaikuResponse(get_haiku_by_id(haikus, chosen[p].id)))
  /\ UNCHANGED <<store, clock, ticks, today, season, chosen, history, resp>>

(* ---------------------------- environment ------------------------------ *)

\* midnight passes at UTC+1: datetime.now(tz_offset).date() moves on
Tick ==
  /\ ticks < MaxTicks
  /\ ticks' = ticks + 1
  /\ clock' = NextDay(clock)
  /\ UNCHANGED <<store, pc, locals, result, history, resp>>

\* the ingestion process adds a poem under an identifier not in the table
AddPoem ==
  /\ \E h \in Poems :
       /\ \A g \in haikus : g.id # h.id
       /\ haikus' = haikus \cup {h}
  /\ Disturb(0)
  /\ UNCHANGED <<daily_haikus, clock, ticks, pc, locals, result, lastUpsert, resp>>

Next ==
  \/ \E p \in Procs : Begin(p)
  \/ \E p \in Procs : ResolveExisting(p)
  \/ \E p \in Procs : ReadUsed(p)
  \/ \E p \in Procs : ReadSeasonal(p)
  \/ \E p \in Procs : ReadAll(p)
  \/ \E p \in Procs : Upsert(p)
  \/ \E p \in Procs : UpsertFail(p)
  \/ \E p \in Procs : Return(p)
  \/ Tick
  \/ AddPoem

Spec == Init /\ [][Next]_vars

(* ----------------- requests handled one at a time ---------------------- *)

\* a request begins only when no other request is in progress
BeginAlone(p) ==
  /\ \A r \in Procs : ~InFlight(r)
  /\ Begin(p)

NextSeq ==
  \/ \E p \in Procs : BeginAlone(p)
  \/ \E p \in Procs : ResolveExisting(p)
  \/ \E p \in Procs : ReadUsed(p)
  \/ \E p \in Procs : ReadSeasonal(p)
  \/ \E p \in Procs : ReadAll(p)
  \/ \E p \in Procs : Upsert(p)
  \/ \E p \in Procs : UpsertFail(p)
  \/ \E p \in Procs : Return(p)
  \/ Tick
  \/ AddPoem

SpecSeq == Init /\ [][NextSeq]_vars

(* ------------- the season classifier on every calendar date ------------ *)

\* the service is started on any date and requests read the date and
\* classify its season (lines 90-93)
InitSeason ==
  /\ haikus = {}
  /\ daily_haikus = {}
  /\ clock \in AllDates
  /\ ticks = 0
  /\ pc = [p \in Procs |-> "idle"]
  /\ today = [p \in Procs |-> StartDate]
  /\ season = [p \in Procs |-> ""]
  /\ existing = [p \in Procs |-> {}]
  /\ used_ids = [p \in Procs |-> <<>>]
  /\ chosen = [p \in Procs |-> None]
  /\ seasonalFree = [p \in Procs |-> FALSE]
  /\ result = [p \in Procs |-> NoResponse]
  /\ quietCall = [p \in Procs |-> TRUE]
  /\ seen = [p \in Procs |-> {}]
  /\ prev = [p \in Procs |-> NoPrev]
  /\ lastUpsert = 0
  /\ resp = NoAnswer

NextSeason == \E p \in Procs : Begin(p)

SpecSeason == InitSeason /\ [][NextSeason]_vars

(* ------------------------ notions used by the claims ------------------- *)

\* the rows of an assignment table for a date string
RowsOn(table, date_str) == {r \in table : r.date = date_str}

\* the poem identifiers present in an assignment table
UsedPoems(table) == {r.haiku_id : r \in table}

\* no poem identifier is in two rows
NoPoemTwice(table) == \A a, b \in table : a.haiku_id = b.haiku_id => a = b

\* the call of request p has returned
Done(p) == pc[p] = "done"

\* the call of p returned a poem it allocated itself
Created(p) == Done(p) /\ result[p].kind = "haiku" /\ chosen[p] # None

\* the call of p ended because a call to the store raised
StoreFailed(p) == result[p].detail = "Failed to insert haiku"

\* the call of p has returned and nobody else wrote to the store since it
\* began, so that seen[p] is the assignment table the call started from and
\* haikus is the poem table it started from
Alone(p) == Done(p) /\ quietCall[p]

\* the call of p started from a table with no row for its date
StartedUnassigned(p) == RowsOn(seen[p], today_str(p)) = {}

\* the poems that were unused when the call of p started
UnusedAtStart(p) == {h \in haikus : h.id \notin UsedPoems(seen[p])}

\* the call of p committed the row (today, poem returned)
Committed(p) == [date |-> today_str(p), haiku_id |-> result[p].id] \in daily_haikus

(* -------------------------------- C1 ----------------------------------- *)

\* C1: when get-or-create calls run one at a time, starting from a table
\* without a repeated poem, no poem identifier is ever in two assignment rows.
C1_NoReuseSequential == NoPoemTwice(daily_haikus)

\* two dates have been assigned, the second by a call that allocated
C1_Witness ==
  /\ Cardinality(daily_haikus) >= 2
  /\ \E p \in Procs : Created(p) /\ Committed(p)

(* -------------------------------- C2 ----------------------------------- *)

\* C2: in every reachable state, under any interleaving of the calls' store
\* operations, the assignment table holds at most one row per date.
C2_OneRowPerDate == \A a, b \in daily_haikus : a.date = b.date => a = b

\* two calls for the same date have both run their upsert, with different poems
C2_Witness ==
  \E p, q \in Procs :
    /\ p # q
    /\ pc[p] = "L158" /\ pc[q] = "L158"
    /\ today[p] = today[q]
    /\ chosen[p].id # chosen[q].id

(* -------------------------------- C3 ----------------------------------- *)

\* C3: two successive calls for the same date, with no other write to the
\* store between or during them, return the same poem identifier.
C3_Idempotent ==
  \A p \in Procs :
    (Alone(p) /\ prev[p] # NoPrev /\ result[p].kind = "haiku")
      => result[p].id = prev[p]

\* the first call allocated the poem (no row before it), the second returned it
C3_Witness ==
  \E p \in Procs :
    /\ Alone(p) /\ prev[p] # NoPrev /\ result[p].kind = "haiku"
    /\ daily_haikus # {} /\ \A r \in daily_haikus : r.date = today_str(p)
    /\ lastUpsert = p

(* -------------------------------- C4 ----------------------------------- *)

\* C4 as stated: a row, once in the table, is in the table in every later
\* state, also when get-or-create calls interleave.
C4_Original == [][\A row \in daily_haikus : row \in daily_haikus']_vars

\* the step is the upsert of a call for the date of `row` during which
\* another writer wrote to the store
RacingUpsert(row) ==
  \E p \in Procs :
    /\ pc[p] = "L147" /\ pc'[p] = "L158"
    /\ ~quietCall[p]
    /\ today_str(p) = row.date

\* C4 amended: a date never loses its row, and the row of a date changes
\* only by the upsert of a call for that date that raced with another writer;
\* a call that runs with no concurrent writer leaves every existing row as it is.
C4_NeverDeletedChangedOnlyByRace ==
  [][\A row \in daily_haikus :
       /\ \E r \in daily_haikus' : r.date = row.date
       /\ row \in daily_haikus' \/ RacingUpsert(row)]_vars

\* a row written on an earlier day is still there after a later day's
\* allocation
C4_Witness ==
  \E p \in Procs :
    /\ Created(p) /\ Committed(p)
    /\ \E r \in daily_haikus : r.date # today_str(p) /\ r.haiku_id # result[p].id
    /\ lastUpsert # 0 /\ lastUpsert # p

(* -------------------------------- C5 ----------------------------------- *)

\* C5: when two calls for the same unassigned date both pass the existence
\* check before either commits, then after both have returned the table has
\* exactly one row for the date, holding the choice of the call whose upsert
\* ran last, and each call has returned its own choice.
C5_LastWriterWins ==
  \A p, q \in Procs :
    (p # q /\ Created(p) /\ Created(q) /\ today[p] = today[q])
      => /\ Cardinality(RowsOn(daily_haikus, today_str(p))) = 1
         /\ result[p].id = chosen[p].id
         /\ result[q].id = chosen[q].id
         /\ lastUpsert \in {p, q}
              => \A r \in RowsOn(daily_haikus, today_str(p)) :
                   r.haiku_id = chosen[lastUpsert].id

\* the two callers received different poems
C5_Witness ==
  \E p, q \in Procs :
    /\ p # q /\ Created(p) /\ Created(q) /\ today[p] = today[q]
    /\ result[p].id # result[q].id
    /\ lastUpsert = q
    /\ [date |-> today_str(p), haiku_id |-> result[q].id] \in daily_haikus

(* -------------------------------- C6 ----------------------------------- *)

\* the call of p started with every poem of today's season used and some
\* poem of another season unused
SeasonExhaustedAtStart(p) ==
  /\ \A h \in UnusedAtStart(p) : h.season # get_season(today[p])
  /\ UnusedAtStart(p) # {}

\* C6: a call that starts with no assignment for today, every poem of
\* today's season used and a poem of another season unused commits today to
\* a poem that was unused, and returns that poem (the store not failing).
C6_Fallback ==
  \A p \in Procs :
    (Alone(p) /\ ~StoreFailed(p) /\ StartedUnassigned(p) /\ SeasonExhaustedAtStart(p))
      => /\ result[p].kind = "haiku"
         /\ result[p].status = 200
         /\ result[p].id \in {h.id : h \in UnusedAtStart(p)}
         /\ Committed(p)

\* the fallback has allocated a poem of another season
C6_Witness ==
  \E p \in Procs :
    /\ Alone(p) /\ StartedUnassigned(p) /\ SeasonExhaustedAtStart(p)
    /\ Created(p) /\ Committed(p)
    /\ result[p].season # season[p]
    /\ \E h \in haikus : h.season = season[p]

(* -------------------------------- C7 ----------------------------------- *)

\* C7 as stated: a call that starts with every poem in some assignment and no
\* assignment for today returns the closing view, writes nothing, and reports
\* the number of distinct poem identifiers in the assignment table.
C7_Original ==
  \A p \in Procs :
    (Alone(p) /\ ~StoreFailed(p) /\ StartedUnassigned(p) /\ UnusedAtStart(p) = {})
      => /\ result[p].kind = "final"
         /\ result[p].season = "eternal"
         /\ daily_haikus = seen[p]
         /\ result[p].count = Cardinality(UsedPoems(daily_haikus))

(* -------------------------------- C8 ----------------------------------- *)

\* C8: after the closing view has been returned for a date and a poem has
\* been added, a call for that date commits the date to an unused poem and
\* returns it (the store not failing).
C8_NotAbsorbing ==
  \A p, q \in Procs :
    ( /\ p # q
      /\ Done(q) /\ result[q].kind = "final" /\ today[q] = today[p]
      /\ Alone(p) /\ ~StoreFailed(p) /\ StartedUnassigned(p)
      /\ UnusedAtStart(p) # {} )
      => /\ result[p].kind = "haiku"
         /\ result[p].id \in {h.id : h \in UnusedAtStart(p)}
         /\ Committed(p)

\* the closing view was returned for the date, and the later call allocated
C8_Witness ==
  \E p, q \in Procs :
    /\ p # q
    /\ Done(q) /\ result[q].kind = "final" /\ today[q] = today[p]
    /\ Alone(p) /\ StartedUnassigned(p)
    /\ Created(p) /\ Committed(p)
    /\ Cardinality(haikus) = MaxPoemId

(* -------------------------------- C9 ----------------------------------- *)

\* C9: on every calendar date exactly one range of the season table contains
\* the normalized date, and get_season returns one of the four labels; the
\* lookup never fails.
C9_SeasonTotal ==
  /\ \A dt \in AllDates : Cardinality(MatchingRanges(dt)) = 1
  /\ \A p \in Procs :
       pc[p] # "idle"
         => /\ season[p] \in SeasonLabels
            /\ season[p] = seasons[CHOOSE i \in MatchingRanges(today[p]) : TRUE].season
            /\ result[p].detail # "StopIteration"

\* Feb 29 has been classified
C9_Witness ==
  \E p \in Procs :
    pc[p] = "L109" /\ today[p] = <<2024, 2, 29>> /\ season[p] = "winter"

(* -------------------------------- C10 ---------------------------------- *)

\* the call of p started with a row for today whose poem is in no haiku row
StartedDangling(p) ==
  /\ RowsOn(seen[p], today_str(p)) # {}
  /\ \A r \in RowsOn(seen[p], today_str(p)) :
       \A h \in haikus : h.id # r.haiku_id

\* C10: a call that finds an assignment for today whose poem is missing
\* answers 500, selects no poem and leaves the assignment table as it was.
C10_DanglingIsError ==
  \A p \in Procs :
    (Alone(p) /\ StartedDangling(p))
      => /\ result[p].status = 500
         /\ result[p].kind = "error"
         /\ chosen[p] = None
         /\ daily_haikus = seen[p]

\* the dangling row was found and reported
C10_Witness ==
  \E p \in Procs :
    /\ Alone(p) /\ StartedDangling(p)
    /\ result[p].detail = "Haiku assigned but not found"

(* ======================= the read side of the API ====================== *)

(* ---------------------- date strings, parsed ---------------------------- *)

\* a character \d matches
IsDigit(c) == \E i \in 1..Len(Digit) : Digit[i] = c

DigitValue(c) == (CHOOSE i \in 1..Len(Digit) : Digit[i] = c) - 1

AllDigits(s) == \A i \in 1..Len(s) : IsDigit(s[i])

\* int() of a run of digits
RECURSIVE Number(_)
Number(s) ==
  IF Len(s) = 0 THEN 0
  ELSE 10 * Number(SubSeq(s, 1, Len(s) - 1)) + DigitValue(s[Len(s)])

\* Path(..., pattern=r"^\d{4}-\d{2}-\d{2}$")
MatchesPattern(s) ==
  /\ Len(s) = 10
  /\ \A i \in {1, 2, 3, 4, 6, 7, 9, 10} : IsDigit(s[i])
  /\ s[5] = "-"
  /\ s[8] = "-"

\* what strptime gives when it raises ValueError
ValueError == <<0, 0, 0>>

\* a parse that checks the shape of the string and not the calendar
strptimeUnchecked(s) ==
  IF MatchesPattern(s)
  THEN <<Number(SubSeq(s, 1, 4)), Number(SubSeq(s, 6, 7)), Number(SubSeq(s, 9, 10))>>
  ELSE ValueError

\* datetime.strptime(date_str, "%Y-%m-%d").date(): four digits of year, one or
\* two digits of month in 1..12, one or two digits of day in 1..31, nothing
\* after them, and a day the month has; ValueError otherwise
strptime(s) ==
  IF Len(s) < 8 \/ Len(s) > 10 THEN ValueError
  ELSE LET cut == IF s[7] = "-" THEN 7 ELSE 8
           ys == SubSeq(s, 1, 4)
           ms == SubSeq(s, 6, cut - 1)
           ds == SubSeq(s, cut + 1, Len(s))
       IN IF /\ s[5] = "-"
             /\ s[cut] = "-"
             /\ Len(ms) \in 1..2
             /\ Len(ds) \in 1..2
             /\ AllDigits(ys) /\ AllDigits(ms) /\ AllDigits(ds)
             /\ Number(ys) >= 1
             /\ Number(ms) \in 1..12
             /\ Number(ds) \in 1..31
             /\ Number(ds) <= DaysInMonth(Number(ys), Number(ms))
          THEN <<Number(ys), Number(ms), Number(ds)>>
          ELSE ValueError

\* date_obj.isoformat()
isoformat(dt) == strftime(dt)

(* ---------------------- the helpers of the endpoints -------------------- *)

\* what a call gives when the store client raises APIError
APIError == [id |-> 0, season |-> "APIError"]

\* get_haiku_by_id as the read side meets it: with no row for the identifier,
\* .single().execute() raises APIError in the store clients that treat a
\* missing row as an error, and gives no data (and `return None`) in the others
single(table, haiku_id, raises) ==
  IF raises /\ \A h \in table : h.id # haiku_id
  THEN APIError
  ELSE get_haiku_by_id(table, haiku_id)

\* get_daily_haiku_by_date: the haiku of a date or None, with the tables it
\* queried on the way
get_daily_haiku_by_date(date_str, raises) ==
  LET date_obj == strptime(date_str)
      record == SelectByDate(daily_haikus, isoformat(date_obj))
  IN IF date_obj = ValueError
     THEN [haiku |-> None, reads |-> <<>>]
     ELSE IF record = {}
     THEN [haiku |-> None, reads |-> <<"daily_haikus">>]
     ELSE [haiku |-> single(haikus, (CHOOSE r \in record : TRUE).haiku_id, raises),
           reads |-> <<"daily_haikus", "haikus">>]

\* raise HTTPException(status_code, detail)
HTTPException(status_code, detail, reads) ==
  [status |-> status_code, body |-> detail, id |-> 0, reads |-> reads]

\* a haiku returned as the body of a 200 answer
HaikuBody(haiku, reads) ==
  [status |-> 200, body |-> "haiku", id |-> haiku.id, reads |-> reads]

\* get_haiku_data_by_date, the function behind GET /haiku/{date}
get_haiku_data_by_date(date, raises) ==
  LET r == get_daily_haiku_by_date(date, raises)
  IN IF r.haiku = APIError
     THEN HTTPException(500, "APIError", r.reads)
     ELSE IF r.haiku = None
     THEN HTTPException(404, "Haiku not found.", r.reads)
     ELSE HaikuBody(r.haiku, r.reads)

\* the characters of a date string, ordered as text
CharRank(c) == IF IsDigit(c) THEN DigitValue(c) + 1 ELSE 0

RECURSIVE StrLess(_, _)
StrLess(a, b) ==
  IF Len(b) = 0 THEN FALSE
  ELSE IF Len(a) = 0 THEN TRUE
  ELSE IF a[1] = b[1] THEN StrLess(Tail(a), Tail(b))
  ELSE CharRank(a[1]) < CharRank(b[1])

\* .order("date", desc=True)
RECURSIVE OrderByDateDesc(_)
OrderByDateDesc(rows) ==
  IF rows = {} THEN <<>>
  ELSE LET top == CHOOSE r \in rows : \A o \in rows : ~StrLess(r.date, o.date)
       IN <<top>> \o OrderByDateDesc(rows \ {top})

\* a range that returns one row more than asked
RangeOneMore(s, from, to) ==
  SubSeq(s, from + 1, IF to + 2 < Len(s) THEN to + 2 ELSE Len(s))

\* .range(from, to): the rows at the zero-based positions from..to, both ends
\* included, as many as there are
Range(s, from, to) ==
  SubSeq(s, from + 1, IF to + 1 < Len(s) THEN to + 1 ELSE Len(s))

PAGE_SIZE_DEFAULT == 20

PAGE_SIZE_MAX == 100

\* a rule that announces a next page whenever the page holds a row
NextPageIfAny(page, limit, rows) == IF Len(rows) > 0 THEN page + 1 ELSE 0

\* next_page = page + 1 if len(rows) == limit else None (None is 0 here, no
\* page has that number)
NextPageRule(page, limit, rows) == IF Len(rows) = limit THEN page + 1 ELSE 0

\* the body of get_haiku_history once page and limit are validated
get_haiku_history(page, limit, raises) ==
  LET offset == (page - 1) * limit
      rows == Range(OrderByDateDesc(daily_haikus), offset, offset + limit - 1)
      answers == [i \in 1..Len(rows) |-> get_haiku_data_by_date(rows[i].date, raises)]
      failed == {i \in 1..Len(rows) : answers[i].status # 200}
      first == CHOOSE i \in failed : \A j \in failed : i <= j
      readsUpTo(n) == IF n = 0 THEN <<>> ELSE answers[n].reads
  IN IF rows = <<>>
     THEN [status |-> 200, body |-> "items", items |-> <<>>, nextPage |-> 0,
           reads |-> <<"daily_haikus">>]
     ELSE IF failed # {}
     THEN [status |-> answers[first].status, body |-> answers[first].body,
           items |-> <<>>, nextPage |-> 0,
           reads |-> <<"daily_haikus">> \o answers[first].reads]
     ELSE [status |-> 200, body |-> "items",
           items |-> [i \in 1..Len(rows) |->
                        [date |-> rows[i].date, id |-> answers[i].id]],
           nextPage |-> NextPageRule(page, limit, rows),
           reads |-> <<"daily_haikus">> \o readsUpTo(Len(rows))]

\* os.getenv("CRON_SECRET")
CRON_SECRET == "s3cret"

\* a comparison that lets every credential through
SecretDiffersNever(x_cron_secret) == FALSE

\* x_cron_secret != os.getenv("CRON_SECRET")
SecretDiffers(x_cron_secret) == x_cron_secret # CRON_SECRET

\* a test that takes every 2xx answer of the email API for a delivery
DeliveredAny2xx(status_code) == status_code \in 200..299

\* response.status_code == 201
Delivered(status_code) == status_code = 201

\* the email API did not answer: httpx raised
NoReply == 0

(* ---------------------- inputs of the read side ------------------------- *)

MaxPage == 3

MaxLimit == 2

RECURSIVE DaysAfter(_, _)
DaysAfter(dt, n) == IF n = 0 THEN dt ELSE NextDay(DaysAfter(dt, n - 1))

\* the days the clock can show
ClockDates == {DaysAfter(StartDate, n) : n \in 0..MaxTicks}

\* the assignment tables the read side may find: at most one row for each day
\* the clock can show, its poem in the catalogue or missing from it
ReadTables ==
  UNION {{{[date |-> strftime(d), haiku_id |-> f[d]] : d \in D} : f \in [D -> PoemIds]}
         : D \in SUBSET ClockDates}

\* path segments that are no date of the calendar, or no date at all
BadDateStrings ==
  {<<"2", "0", "2", "4", "-", "1", "3", "-", "4", "0">>,
   <<"2", "0", "2", "5", "-", "0", "2", "-", "2", "9">>,
   <<"2", "0", "2", "5", "-", "0", "4", "-", "3", "1">>,
   <<"2", "0", "2", "5", "-", "0", "0", "-", "1", "0">>,
   <<"2", "0", "2", "5", "-", "0", "3", "-", "0", "0">>,
   <<"0", "0", "0", "0", "-", "0", "3", "-", "1", "9">>,
   <<"2", "0", "2", "5", "-", "3", "-", "1", "9">>,
   <<"2", "0", "2", "5", "-", "0", "3", "-", "1", "x">>,
   <<"t", "o", "d", "a", "y", "s">>}

\* the path segments requests carry
DateStrings ==
  {strftime(d) : d \in ClockDates} \cup {strftime(<<2024, 2, 29>>)} \cup BadDateStrings

Pages == 0..MaxPage

Limits == (0..MaxLimit) \cup {PAGE_SIZE_DEFAULT, PAGE_SIZE_MAX, PAGE_SIZE_MAX + 1}

HeaderValues ==
  {[present |-> TRUE, value |-> c] : c \in {CRON_SECRET, "guess", ""}} \cup {NoHeader}

\* what the email API answers to the POST
ApiAnswers == {NoReply, 200, 201, 204, 400, 401, 500, 503}

(* ---------------------- the endpoints ----------------------------------- *)

\* resp holds the answer being returned; an endpoint serves a request when no
\* answer is on its way out

\* the variables of get_daily_haiku's requests and the clock
allocator == <<clock, ticks, pc, locals, result, history>>

\* a lookup by date that assigns the first poem to a date it finds unassigned
GetHaikuByDateCreating(date, raises) ==
  /\ resp = NoAnswer
  /\ resp' = [NoAnswer EXCEPT !.op = "by_date", !.str = date, !.status = 200,
                              !.body = "haiku"]
  /\ daily_haikus' = IF MatchesPattern(date) /\ SelectByDate(daily_haikus, date) = {}
                     THEN upsert(daily_haikus, [date |-> date, haiku_id |-> 1])
                     ELSE daily_haikus
  /\ UNCHANGED <<haikus, allocator>>

\* GET /haiku/{date}: the path pattern, then get_haiku_data_by_date
GetHaikuByDate(date, raises) ==
  /\ resp = NoAnswer
  /\ resp' = IF ~MatchesPattern(date)
             THEN [NoAnswer EXCEPT !.op = "by_date", !.str = date, !.status = 422,
                                   !.body = "string_pattern_mismatch"]
             ELSE LET a == get_haiku_data_by_date(date, raises)
                  IN [NoAnswer EXCEPT !.op = "by_date", !.str = date,
                                      !.status = a.status, !.body = a.body,
                                      !.id = a.id, !.reads = a.reads]
  /\ UNCHANGED <<store, allocator>>

\* GET /haiku/today (get_today_haiku)
GetTodayHaiku(raises) ==
  LET today_s == strftime(clock)
      record == SelectByDate(daily_haikus, today_s)
      haiku == single(haikus, (CHOOSE r \in record : TRUE).haiku_id, raises)
      a == IF record = {}
           THEN HTTPException(404, "No haiku assigned for today", <<"daily_haikus">>)
           ELSE IF haiku = APIError
           THEN HTTPException(500, "APIError", <<"daily_haikus", "haikus">>)
           ELSE IF haiku = None
           THEN HTTPException(500, "Assigned haiku not found", <<"daily_haikus", "haikus">>)
           ELSE HaikuBody(haiku, <<"daily_haikus", "haikus">>)
  IN /\ resp = NoAnswer
     /\ resp' = [NoAnswer EXCEPT !.op = "today", !.str = today_s,
                                 !.status = a.status, !.body = a.body,
                                 !.id = a.id, !.reads = a.reads]
     /\ UNCHANGED <<store, allocator>>

\* GET /api/haiku/history: page >= 1 and 1 <= limit <= PAGE_SIZE_MAX, then
\* get_haiku_history
GetHaikuHistory(page, limit, raises) ==
  /\ resp = NoAnswer
  /\ resp' = IF page < 1 \/ limit < 1 \/ limit > PAGE_SIZE_MAX
             THEN [NoAnswer EXCEPT !.op = "history", !.page = page, !.limit = limit,
                                   !.status = 422, !.body = "out_of_range"]
             ELSE LET a == get_haiku_history(page, limit, raises)
                  IN [NoAnswer EXCEPT !.op = "history", !.page = page,
                                      !.limit = limit, !.status = a.status,
                                      !.body = a.body, !.items = a.items,
                                      !.nextPage = a.nextPage, !.reads = a.reads]
  /\ UNCHANGED <<store, allocator>>

\* POST /send_daily_haiku_email (trigger_daily_email); api is what the email
\* API answers if the request reaches it
TriggerDailyEmail(header, api, raises) ==
  LET today_s == isoformat(clock)
      haiku_record == SelectByDate(daily_haikus, today_s)
      haiku == single(haikus, (CHOOSE r \in haiku_record : TRUE).haiku_id, raises)
      a == IF ~header.present
           THEN [status |-> 422, body |-> "missing", id |-> 0, reads |-> <<>>,
                 posted |-> FALSE]
           ELSE IF SecretDiffers(header.value)
           THEN [status |-> 401, body |-> "Unauthorized", id |-> 0, reads |-> <<>>,
                 posted |-> FALSE]
           ELSE IF haiku_record = {}
           THEN [status |-> 200, body |-> "no haiku assigned for today", id |-> 0,
                 reads |-> <<"daily_haikus">>, posted |-> FALSE]
           ELSE IF haiku = APIError
           THEN [status |-> 500, body |-> "APIError", id |-> 0,
                 reads |-> <<"daily_haikus", "haikus">>, posted |-> FALSE]
           ELSE IF haiku = None
           THEN [status |-> 500, body |-> "TypeError", id |-> 0,
                 reads |-> <<"daily_haikus", "haikus">>, posted |-> FALSE]
           ELSE IF api = NoReply
           THEN [status |-> 500, body |-> "RequestError", id |-> haiku.id,
                 reads |-> <<"daily_haikus", "haikus">>, posted |-> TRUE]
           ELSE IF Delivered(api)
           THEN [status |-> 200, body |-> "email sent", id |-> haiku.id,
                 reads |-> <<"daily_haikus", "haikus">>, posted |-> TRUE]
           ELSE [status |-> 200, body |-> "failed", id |-> haiku.id,
                 reads |-> <<"daily_haikus", "haikus">>, posted |-> TRUE]
  IN /\ resp = NoAnswer
     /\ resp' = [NoAnswer EXCEPT !.op = "email", !.str = today_s, !.cred = header,
                                 !.api = api, !.status = a.status, !.body = a.body,
                                 !.id = a.id, !.reads = a.reads, !.posted = a.posted]
     /\ UNCHANGED <<store, allocator>>

\* the answer leaves the server; the next request can be served
Deliver ==
  /\ resp # NoAnswer
  /\ resp' = NoAnswer
  /\ UNCHANGED <<store, allocator>>

\* the read side alone, one request at a time, over every table it may find
InitRead ==
  /\ haikus \in Catalogues
  /\ daily_haikus \in ReadTables
  /\ clock = StartDate
  /\ ticks = 0
  /\ pc = [p \in Procs |-> "idle"]
  /\ today = [p \in Procs |-> StartDate]
  /\ season = [p \in Procs |-> ""]
  /\ existing = [p \in Procs |-> {}]
  /\ used_ids = [p \in Procs |-> <<>>]
  /\ chosen = [p \in Procs |-> None]
  /\ seasonalFree = [p \in Procs |-> FALSE]
  /\ result = [p \in Procs |-> NoResponse]
  /\ quietCall = [p \in Procs |-> FALSE]
  /\ seen = [p \in Procs |-> {}]
  /\ prev = [p \in Procs |-> NoPrev]
  /\ lastUpsert = 0
  /\ resp = NoAnswer

NextRead ==
  \/ \E date \in DateStrings, raises \in BOOLEAN : GetHaikuByDate(date, raises)
  \/ \E raises \in BOOLEAN : GetTodayHaiku(raises)
  \/ \E page \in Pages, limit \in Limits, raises \in BOOLEAN :
       GetHaikuHistory(page, limit, raises)
  \/ \E header \in HeaderValues, api \in ApiAnswers, raises \in BOOLEAN :
       TriggerDailyEmail(header, api, raises)
  \/ Deliver

SpecRead == InitRead /\ [][NextRead]_vars

(* ------------------------ notions of the read side ---------------------- *)

\* the table has a row for the date whose poem is not in the catalogue
Dangling(date_str) ==
  \E r \in daily_haikus :
    /\ r.date = date_str
    /\ \A h \in haikus : h.id # r.haiku_id

\* the string is the YYYY-MM-DD form of a day of the calendar
CalendarStrings == {strftime(d) : d \in AllDates}

IsCalendarDate(s) == s \in CalendarStrings

\* the last answer came from the named endpoint
Answered(op) == resp.op = op

\* the last answer is a history listing whose page and limit passed validation
Listed == Answered("history") /\ resp.status # 422

\* the number of assignments with a later date than d
Rank(d) == Cardinality({r \in daily_haikus : StrLess(d, r.date)})

\* the dates at the zero-based positions from..to of the assignments, latest first
DatesAt(from, to) == {r.date : r \in {x \in daily_haikus : Rank(x.date) \in from..to}}

\* the dates of the rows a listing returned
ItemDates(items) == {items[i].date : i \in 1..Len(items)}

\* the last answer is an email dispatch that reached the email API and got an
\* answer from it
Dispatched == Answered("email") /\ resp.posted /\ resp.api # NoReply

(* -------------------------------- C11 ---------------------------------- *)

\* C11 as stated: on every read path (lookup by date, today's haiku, the rows
\* of the history listing) an assignment whose poem is missing is answered
\* with a 500 and never with a 404.
C11_Original ==
  /\ (Answered("by_date") /\ Dangling(resp.str)) => resp.status = 500
  /\ (Answered("today") /\ Dangling(resp.str)) => resp.status = 500
  /\ (Listed /\ \E d \in DatesAt((resp.page - 1) * resp.limit,
                                  resp.page * resp.limit - 1) : Dangling(d))
       => resp.status = 500

(* -------------------------------- C12 ---------------------------------- *)

\* C12: every step in which the lookup by date, today's haiku, the history
\* listing or the email dispatch answers leaves both tables as they were,
\* whatever the answer; a lookup for an unassigned date creates no row.
C12_ReadOnly ==
  [][(resp' # resp) => (haikus' = haikus /\ daily_haikus' = daily_haikus)]_vars

\* a lookup for a date without assignment was answered and the date still
\* has no row
C12_Witness ==
  /\ Answered("by_date")
  /\ IsCalendarDate(resp.str)
  /\ resp.reads = <<"daily_haikus">>
  /\ resp.status = 404
  /\ RowsOn(daily_haikus, resp.str) = {}
  /\ daily_haikus # {}

(* -------------------------------- C13 ---------------------------------- *)

\* C13: a lookup by date whose string is no calendar date in YYYY-MM-DD form
\* is answered with a 4xx status, never a 500, queries no table and leaves
\* the store unchanged.
C13_InvalidDateRejected ==
  [][(resp' # resp /\ resp'.op = "by_date" /\ ~IsCalendarDate(resp'.str))
       => /\ resp'.status \in 400..499
          /\ resp'.reads = <<>>
          /\ haikus' = haikus
          /\ daily_haikus' = daily_haikus]_vars

\* 2024-13-40 has the shape of a date, is none, and was answered with 404
C13_Witness ==
  /\ Answered("by_date")
  /\ resp.str = <<"2", "0", "2", "4", "-", "1", "3", "-", "4", "0">>
  /\ resp.status = 404
  /\ daily_haikus # {}

(* -------------------------------- C14 ---------------------------------- *)

\* C14: a history listing for a page >= 1 and a limit in 1..PAGE_SIZE_MAX that
\* answers with items has nextPage = page + 1 exactly when it returned limit
\* rows and null otherwise; a page past the end is answered with no items and
\* nextPage null, not with an error.
C14_NextPage ==
  Listed =>
    /\ resp.status = 200
         => /\ (resp.nextPage = resp.page + 1) <=> (Len(resp.items) = resp.limit)
            /\ (Len(resp.items) # resp.limit) => resp.nextPage = 0
    /\ (resp.page - 1) * resp.limit >= Cardinality(daily_haikus)
         => /\ resp.status = 200
            /\ resp.items = <<>>
            /\ resp.nextPage = 0

\* a full page that is not the last one was listed
C14_Witness ==
  /\ Listed
  /\ resp.status = 200
  /\ Len(resp.items) = resp.limit
  /\ resp.nextPage = resp.page + 1
  /\ Cardinality(daily_haikus) > resp.page * resp.limit

(* -------------------------------- C15 ---------------------------------- *)

\* C15: a history listing that answers with items returns exactly the
\* assignments at the positions [(page-1)*limit, page*limit) of the table
\* ordered by date, latest first, in that order, and shares no date with the
\* page after it read from the same table: the two pages together are the
\* assignments at the positions [(page-1)*limit, (page+1)*limit).
C15_PagesPartition ==
  (Listed /\ resp.status = 200) =>
    LET offset == (resp.page - 1) * resp.limit
        after == Range(OrderByDateDesc(daily_haikus), offset + resp.limit,
                       offset + 2 * resp.limit - 1)
    IN /\ ItemDates(resp.items) = DatesAt(offset, offset + resp.limit - 1)
       /\ Len(resp.items) = Cardinality(ItemDates(resp.items))
       /\ \A i, j \in 1..Len(resp.items) :
            i < j => StrLess(resp.items[j].date, resp.items[i].date)
       /\ ItemDates(resp.items) \cap ItemDates(after) = {}
       /\ ItemDates(resp.items) \cup ItemDates(after)
            = DatesAt(offset, offset + 2 * resp.limit - 1)

\* the second page of a table was listed and the page after it has a row
C15_Witness ==
  /\ Listed
  /\ resp.status = 200
  /\ resp.page = 2
  /\ resp.items # <<>>
  /\ Cardinality(daily_haikus) > resp.page * resp.limit

(* -------------------------------- C16 ---------------------------------- *)

\* C16: an email dispatch whose X-Cron-Secret differs from the secret of the
\* server is answered with 401, reads no table and sends nothing to the email
\* API; a request reaches the email API only with the secret itself.
C16_SecretGuardsDispatch ==
  Answered("email") =>
    /\ (resp.cred.present /\ resp.cred.value # CRON_SECRET)
         => /\ resp.status = 401
            /\ resp.reads = <<>>
            /\ ~resp.posted
    /\ resp.posted => (resp.cred.present /\ resp.cred.value = CRON_SECRET)

\* a wrong secret was refused on a day that has a haiku to send
C16_Witness ==
  /\ Answered("email")
  /\ resp.cred.present
  /\ resp.cred.value = "guess"
  /\ resp.status = 401
  /\ ~Dangling(resp.str)
  /\ RowsOn(daily_haikus, resp.str) # {}

(* -------------------------------- C17 ---------------------------------- *)

\* C17 as stated: a dispatch the email API answers with a non-2xx status is
\* answered with a 500, and one it answers with a 2xx status is reported as
\* sent.
C17_Original ==
  Dispatched =>
    /\ resp.api \notin 200..299 => resp.status = 500
    /\ resp.api \in 200..299 => resp.body = "email sent"

\* C17: a dispatch the email API answers is answered with a 200 whose body
\* says "email sent" when the API answered 201 and "failed" when it answered
\* any other status, 2xx or not.
C17_SentOnlyOn201 ==
  Dispatched =>
    /\ resp.status = 200
    /\ resp.api = 201 => resp.body = "email sent"
    /\ resp.api # 201 => resp.body = "failed"

\* the email API answered 200 and the dispatch was reported as failed
C17_Witness ==
  /\ Dispatched
  /\ resp.api = 200
  /\ resp.body = "failed"
  /\ resp.status = 200

(* -------------------------------- C18 ---------------------------------- *)

\* C18 as stated: whatever the interleaving of get-or-create calls, for one
\* date or for several, two assignment rows never hold the same poem.
C18_Original ==
  \A a, b \in daily_haikus : a.date # b.date => a.haiku_id # b.haiku_id

(* -------------------------------- C19 ---------------------------------- *)

\* C19: whenever a call creates an assignment, the row holds the poem the call
\* chose and that poem is not in the used set the call read; and the poem was
\* chosen of today's season if a poem of today's season was unused when that
\* set was read (the choice and the season stay as they are until the row is
\* written).
C19_ChoiceRespectsReads ==
  [][\A p \in Procs :
       /\ (pc[p] = "L147" /\ pc'[p] = "L158")
            => /\ [date |-> today_str(p), haiku_id |-> chosen[p].id] \in daily_haikus'
               /\ chosen[p].id \notin SeqRange(used_ids[p])
       /\ (pc[p] \in {"L114", "L119"} /\ pc'[p] = "L147")
            => /\ chosen'[p].id \notin SeqRange(used_ids[p])
               /\ seasonalFree[p] => chosen'[p].season = season[p]
       /\ (pc[p] = "L147" /\ pc'[p] \in {"L147", "L158"})
            => /\ chosen'[p] = chosen[p]
               /\ season'[p] = season[p]
               /\ used_ids'[p] = used_ids[p]]_vars

\* a call created an assignment with a poem of today's season while an unused
\* poem of another season was in the catalogue it chose from
C19_Witness ==
  \E p \in Procs :
    /\ pc[p] = "L158"
    /\ chosen[p].season = season[p]
    /\ \E h \in haikus :
         /\ h.season # season[p]
         /\ h.id \notin SeqRange(used_ids[p])
         /\ h.id \notin UsedPoems(seen[p])

(* -------------------------------- C20 ---------------------------------- *)

\* C20: a call whose upsert failed answers 500 without a poem and leaves the
\* assignment table as it was when the call began, with no row for its date;
\* the next call for that date finds no assignment and allocates.
C20_FailedUpsertLeavesTable ==
  [][\A p \in Procs :
       /\ (pc'[p] = "done" /\ quietCall'[p] /\ result'[p].detail = "Failed to insert haiku")
            => /\ result'[p].status = 500
               /\ result'[p].kind = "error"
               /\ result'[p].id = None.id
               /\ daily_haikus' = seen'[p]
               /\ RowsOn(daily_haikus', strftime(today'[p])) = {}
       /\ (Alone(p) /\ StoreFailed(p) /\ clock = today[p] /\ pc'[p] # pc[p])
            => pc'[p] = "L109"]_vars

\* a call failed at the upsert with nobody else writing, on a table that had
\* rows for other dates
C20_Witness ==
  \E p \in Procs :
    /\ Alone(p)
    /\ StoreFailed(p)
    /\ chosen[p] # None
    /\ daily_haikus # {}

====
